---- MODULE Spec2Model ----
(***************************************************************************)
(* The ETG dump sync worker (src/main.js): run() obtains a dump URL,       *)
(* downloads the zstd dump, checks the magic header, reads it line by      *)
(* line, filters the hotels, groups them into batches of BATCH_SIZE and    *)
(* posts every batch with upsertBatch(), which retries retryable statuses. *)
(*                                                                         *)
(* One action per suspension point of run() and upsertBatch().  The sink,  *)
(* the gateway and the dump server are the environment: their answers are  *)
(* chosen with \E.  `input`, `requests`, `responses`, `sleeps` and         *)
(* `returns` are logs of what the worker read, sent, received and did;     *)
(* the worker never reads them.                                            *)
(*                                                                         *)
(* Spec is the run of src/main.js.  SpecStream adds the chunk traffic of   *)
(* the rebuilt stream, SpecAnyRetries lets UPSERT_RETRIES be 0,            *)
(* SpecSignal adds a termination signal, SpecValidator applies             *)
(* isCompleteHotel() to one record under any filter configuration,         *)
(* SpecFetch is fetchDumpStreamWithRetry() of src/unnamed/part_007, and    *)
(* SpecTracker adds the session tracker call that src/unnamed/part_003     *)
(* and src/unnamed/part_000 make after the last batch.                     *)
(***************************************************************************)
EXTENDS Integers, Sequences, FiniteSets, TLC

(* ---------------------------- bounds ----------------------------------- *)
\* number of lines of the decompressed dump
MaxLines == 3
\* largest configured BATCH_SIZE
MaxBatchSize == 2
\* largest configured UPSERT_RETRIES
MaxRetries == 3
\* number of answers of the sink in one run that the run survives and that
\* are not the plain 200 {"success": true}
MaxFaults == 2
\* number of different answers among those that MaxFaults counts
MaxFaultKinds == 1
\* largest `retries` fetchDumpStreamWithRetry() is called with
MaxFetchRetries == 2

(* ------------------------- program constants --------------------------- *)
\* what Date.now() gives when run() starts: download_id is made of it
RunStartedAt == 1

UPSERT_RETRY_MS == 1500

RetryableStatuses == {408, 429, 500, 502, 503, 504}

ZstdMagic == <<40, 181, 47, 253>>

\* the exit code of a process that ends after run() has resolved
ExitCodeOnSuccess == 0

\* the exit code while the process is running
StillRunning == -1

\* what is logged before "Done." has been logged
NoSummary == [kept |-> -1, scanned |-> -1, skipped |-> -1]

(* ------------------------- environment values -------------------------- *)
\* statuses the sink answers with
SinkStatuses == {200, 400} \cup RetryableStatuses

\* what JSON.parse(text) of the sink's body gives: an object with
\* success true, with success false, without a success field, or a throw
SinkBodies == {"success_true", "success_false", "no_success", "not_json"}

SinkResponses ==
    {[status |-> 200, body |-> b] : b \in SinkBodies}
        \cup {[status |-> s, body |-> "not_json"] : s \in SinkStatuses \ {200}}

\* the plain success answer
PlainSuccess == [status |-> 200, body |-> "success_true"]

\* fetch() rejected: there is no response
NetworkError == [status |-> 0, body |-> "network_error"]

\* the lines readline yields
LineKinds == {"blank", "malformed", "incomplete", "complete"}

\* what the gateway answers: res.ok, and what JSON.parse(text) gives: an
\* object with data.url, an object without it, or a throw
GatewayResponses ==
    {[ok |-> o, json |-> j] : o \in BOOLEAN, j \in {"url", "no_url", "not_json"}}

\* bodies the dump server can send, as the chunks reader.read() yields:
\* no chunk at all, a zstd frame in three chunks, a zstd frame whose magic
\* is split over two chunks, an HTML page, a wrong third byte, a short page
Dumps ==
    {<<>>,
     <<(<<40, 181, 47, 253, 0>>), (<<1>>), (<<2>>)>>,
     <<(<<40, 181>>), (<<47, 253, 0>>)>>,
     <<(<<60, 104, 116, 109, 108>>)>>,
     <<(<<40, 181, 0, 0>>)>>,
     <<(<<60, 104>>)>>}

NoPayload == [download_id |-> 0, hotels |-> <<>>, batch_index |-> 0]

(* ------------------- the fields of a decoded record -------------------- *)
\* A JavaScript value as the filters see it: its typeof, the length of a
\* string and of its trim(), and what Number(value) gives (fin is FALSE
\* for NaN).
JsUndefined ==
    [t |-> "undefined", len |-> 0, tlen |-> 0, fin |-> FALSE, n |-> 0]

\* Number(null) is 0
JsNull == [t |-> "object", len |-> 0, tlen |-> 0, fin |-> TRUE, n |-> 0]

JsString(len, tlen, fin, n) ==
    [t |-> "string", len |-> len, tlen |-> tlen, fin |-> fin, n |-> n]

JsNumber(n) == [t |-> "number", len |-> 0, tlen |-> 0, fin |-> TRUE, n |-> n]

\* what `!v` negates
Truthy(v) ==
    CASE v.t = "string" -> v.len > 0
      [] v.t = "number" -> v.n # 0
      [] OTHER -> FALSE

\* the entries of an images array: an https:// URL, a string that is not
\* an absolute URL ("/img/1.jpg"), a string of spaces, a number
ImageEntries == {"https", "relative", "blank", "number"}

\* typeof x === "string"
ImageIsString(x) == x # "number"

\* x.trim().length > 0, for a string entry
ImageTrimmedNonEmpty(x) == x # "blank"

\* a hotel every filter lets through
GoodHotel ==
    [id |-> JsString(2, 2, FALSE, 0),
     name |-> JsString(5, 5, FALSE, 0),
     star_rating |-> JsNumber(4),
     images |-> [array |-> TRUE, items |-> <<"https">>],
     address |-> JsString(7, 7, FALSE, 0),
     region |-> [object |-> TRUE, country_code |-> JsString(2, 2, FALSE, 0)],
     latitude |-> JsNumber(45),
     longitude |-> JsNumber(10)]

\* the record of a "complete" line of the dump: its images array holds an
\* absolute URL and a relative path
CompleteHotel ==
    [GoodHotel EXCEPT !.images = [array |-> TRUE,
                                  items |-> <<"https", "relative">>]]

\* the record of an "incomplete" line of the dump: no image
IncompleteHotel ==
    [GoodHotel EXCEPT !.images = [array |-> TRUE, items |-> <<>>]]

\* the values a dump can carry in each field: absent, null, "", a string
\* of one character, of spaces, a non-numeric string, numbers in and out
\* of range
Ids == <<JsUndefined, JsString(0, 0, TRUE, 0), JsString(2, 2, FALSE, 0),
         JsNumber(7)>>
Names == <<JsUndefined, JsString(1, 1, FALSE, 0), JsString(2, 2, FALSE, 0),
           JsString(2, 0, TRUE, 0)>>
Stars == <<JsUndefined, JsNull, JsString(4, 4, FALSE, 0), JsNumber(2),
           JsNumber(4)>>
ImageLists ==
    <<[array |-> FALSE, items |-> <<>>],
      [array |-> TRUE, items |-> <<"https">>],
      [array |-> TRUE, items |-> <<"relative">>],
      [array |-> TRUE, items |-> <<"number">>],
      [array |-> TRUE, items |-> <<"blank", "https">>],
      [array |-> TRUE, items |-> <<"https", "https">>]>>
Addresses ==
    <<JsUndefined, JsString(0, 0, TRUE, 0), JsString(7, 7, FALSE, 0)>>
Regions ==
    <<[object |-> FALSE, country_code |-> JsUndefined],
      [object |-> TRUE, country_code |-> JsUndefined],
      [object |-> TRUE, country_code |-> JsString(2, 2, FALSE, 0)],
      [object |-> TRUE, country_code |-> JsString(3, 3, FALSE, 0)]>>
Latitudes == <<JsUndefined, JsNull, JsNumber(45), JsNumber(91)>>
Longitudes == <<JsString(3, 3, FALSE, 0), JsNumber(10), JsNumber(181)>>

\* the contents of the decoded records, in a table: the records of the
\* two kinds of line, then GoodHotel with one field replaced.  A decoded
\* record is held as its line number and its row in this table.
Catalog ==
    <<IncompleteHotel, CompleteHotel>>
        \o [i \in 1..Len(Ids) |-> [GoodHotel EXCEPT !.id = Ids[i]]]
        \o [i \in 1..Len(Names) |-> [GoodHotel EXCEPT !.name = Names[i]]]
        \o [i \in 1..Len(Stars) |->
               [GoodHotel EXCEPT !.star_rating = Stars[i]]]
        \o [i \in 1..Len(ImageLists) |->
               [GoodHotel EXCEPT !.images = ImageLists[i]]]
        \o [i \in 1..Len(Addresses) |->
               [GoodHotel EXCEPT !.address = Addresses[i]]]
        \o [i \in 1..Len(Regions) |->
               [GoodHotel EXCEPT !.region = Regions[i]]]
        \o [i \in 1..Len(Latitudes) |->
               [GoodHotel EXCEPT !.latitude = Latitudes[i]]]
        \o [i \in 1..Len(Longitudes) |->
               [GoodHotel EXCEPT !.longitude = Longitudes[i]]]

\* the decoded records the filters are applied to
Hotels == 1..Len(Catalog)

\* MIN_IMAGES, MIN_STAR_RATING, REQUIRE_GEO, REQUIRE_ADDRESS and
\* REQUIRE_COUNTRY as read from the environment
FilterConfigs ==
    [MIN_IMAGES : {1, 2}, MIN_STAR_RATING : {0, 3}, REQUIRE_GEO : BOOLEAN,
     REQUIRE_ADDRESS : BOOLEAN, REQUIRE_COUNTRY : BOOLEAN]

\* the defaults: 1 image, no minimum rating, all three REQUIRE_ flags on
DefaultFilters ==
    [MIN_IMAGES |-> 1, MIN_STAR_RATING |-> 0, REQUIRE_GEO |-> TRUE,
     REQUIRE_ADDRESS |-> TRUE, REQUIRE_COUNTRY |-> TRUE]

\* the record decoded from line n whose contents are row `row`
HotelOfLine(n, row) == [line |-> n, row |-> row]

\* the fields of a decoded record
Fields(h) == Catalog[h.row]

\* before isCompleteHotel() has been applied
NoHotel == HotelOfLine(0, 1)

VARIABLES
    BATCH_SIZE, UPSERT_RETRIES,
    pc, error, download_id, firstBuf,
    gatewayLog, downloads, dump,
    chunksRead, queued, pumpClosed,
    input, batch, kept, scanned, skipped, batchIndex,
    payload, attempt, site,
    requests, responses, sleeps, returns,
    report, policy, tracker, fetcher

vars ==
    <<BATCH_SIZE, UPSERT_RETRIES, pc, error, download_id, firstBuf,
      gatewayLog, downloads, dump, chunksRead, queued, pumpClosed,
      input, batch, kept, scanned, skipped, batchIndex,
      payload, attempt, site, requests, responses, sleeps, returns,
      report, policy, tracker, fetcher>>

config == <<BATCH_SIZE, UPSERT_RETRIES>>
prelude == <<gatewayLog, downloads, dump>>
stream == <<chunksRead, queued, pumpClosed>>
counters == <<kept, scanned, skipped>>
loopState == <<input, batch, kept, scanned, skipped, batchIndex>>
callState == <<payload, attempt, site>>
logs == <<requests, responses, sleeps, returns>>
side == <<policy, tracker, fetcher>>

\* report: what the process has logged of its counters, and its exit code
summary == report.summary
exitCode == report.exitCode

\* policy: the filters read from the environment, and a decoded record
\* with isCompleteHotel()'s verdict on it
filters == policy.filters
hotel == policy.hotel
verdict == policy.verdict

\* fetcher: the locals of fetchDumpStreamWithRetry(), with the log of its
\* fetches and the stream it returned
retries == fetcher.retries
fetchPc == fetcher.pc
fetchAttempt == fetcher.attempt
fetchLog == fetcher.log
lastErr == fetcher.lastErr
fetched == fetcher.fetched
worker ==
    <<pc, error, download_id, firstBuf, prelude, stream, loopState,
      callState, logs, report>>

(* --------------------------- pure functions ---------------------------- *)
\* res.ok
ResOk(status) == status >= 200 /\ status <= 299

\* JSON.parse(text) threw, so json = null
JsonIsNull(body) == body = "not_json"

\* a variant that wants an explicit success flag in a JSON body
IsDeliveredNeedsFlag(res) == ResOk(res.status) /\ res.body = "success_true"

\* a variant that drops the json.success check
IsDeliveredIgnoringFlag(res) == ResOk(res.status)

\* res.ok && (!json || json.success !== false)
IsDelivered(res) ==
    ResOk(res.status) /\ (JsonIsNull(res.body) \/ res.body # "success_false")

\* a variant that retries whatever the status
RetryableAlways(status) == status = status

\* [408, 429, 500, 502, 503, 504].includes(res.status)
Retryable(status) == status \in RetryableStatuses

\* a variant that compares one attempt too late
LastAttemptOffByOne(a) == a = UPSERT_RETRIES + 1

\* attempt === UPSERT_RETRIES
LastAttempt(a) == a = UPSERT_RETRIES

\* a variant that sleeps the same time before every retry
BackoffMsConstant(a) == UPSERT_RETRY_MS

\* UPSERT_RETRY_MS * attempt
BackoffMs(a) == UPSERT_RETRY_MS * a

\* a variant that derives the id again for every batch
PayloadFreshId(d, hotels, idx) ==
    [download_id |-> d + idx, hotels |-> hotels, batch_index |-> idx]

\* const payload = { download_id, hotels, batch_index }
Payload(d, hotels, idx) ==
    [download_id |-> d, hotels |-> hotels, batch_index |-> idx]

\* a variant whose first request drains the hotels array
RequestBodyDrained(p) ==
    [download_id |-> p.download_id,
     hotels |-> IF attempt > 1 THEN <<>> ELSE p.hotels,
     batch_index |-> p.batch_index]

\* body: JSON.stringify(payload): the three fields the sink receives
RequestBody(p) ==
    [download_id |-> p.download_id, hotels |-> p.hotels,
     batch_index |-> p.batch_index]

\* a variant that compares the first two bytes only
looksLikeZstdMagicTwoBytes(buf) ==
    /\ Len(buf) >= 2
    /\ \A i \in 1..2 : buf[i] = ZstdMagic[i]

\* buf?.length >= 4 && buf[0] === 0x28 && ... && buf[3] === 0xFD
looksLikeZstdMagic(buf) ==
    /\ Len(buf) >= 4
    /\ \A i \in 1..4 : buf[i] = ZstdMagic[i]

\* a variant that accepts a blank line as a line to parse
IsBlankLineNever(line) == FALSE

\* !line || !line.trim()
IsBlankLine(line) == line.kind = "blank"

\* JSON.parse(line): ok is FALSE when it throws
JsonParse(line) ==
    [ok |-> line.kind \in {"incomplete", "complete"},
     obj |-> HotelOfLine(line.n, IF line.kind = "complete" THEN 2 ELSE 1)]

\* imgs.filter((x) => typeof x === "string" ? x.trim().length > 0 : true)
\* has at least n entries
hasAtLeastNImages(h, n) ==
    LET imgs == IF h.images.array THEN h.images.items ELSE <<>>
        keep(x) == IF ImageIsString(x) THEN ImageTrimmedNonEmpty(x) ELSE TRUE
    IN  Len(SelectSeq(imgs, keep)) >= n

\* Number.isFinite(Number(h.latitude)) && Number.isFinite(Number(h.longitude))
hasGeo(h) == h.latitude.fin /\ h.longitude.fin

\* cc is region.country_code when region is an object, else null
hasCountry(h) ==
    LET cc == IF h.region.object THEN h.region.country_code ELSE JsNull
    IN  cc.t = "string" /\ cc.tlen = 2

\* Number(h.star_rating || 0)
StarRatingNumber(h) ==
    IF Truthy(h.star_rating) THEN h.star_rating ELSE JsNumber(0)

\* sr < MIN_STAR_RATING, which is false when sr is NaN
BelowMinStar(sr) == sr.fin /\ sr.n < filters.MIN_STAR_RATING

\* a variant that lets every decoded record through
isCompleteHotelAcceptAll(h) == TRUE

\* isCompleteHotel(h): the configured filters all pass
isCompleteHotel(h) ==
    LET f == Fields(h)
    IN  /\ Truthy(f.id) /\ f.id.t = "string"
        /\ Truthy(f.name) /\ f.name.t = "string" /\ f.name.tlen > 0
        /\ ~BelowMinStar(StarRatingNumber(f))
        /\ hasAtLeastNImages(f, filters.MIN_IMAGES)
        /\ filters.REQUIRE_ADDRESS =>
               /\ Truthy(f.address)
               /\ f.address.t = "string"
               /\ f.address.tlen > 0
        /\ filters.REQUIRE_COUNTRY => hasCountry(f)
        /\ filters.REQUIRE_GEO => hasGeo(f)

\* a variant that does not count the line that failed to parse
SkippedAfterBadLineUncounted(n) == n

\* catch { skipped++; continue; }
SkippedAfterBadLine(n) == n + 1

\* a variant that sends the batch one record too late
BatchFullOffByOne(b) == Len(b) > BATCH_SIZE

\* batch.length >= BATCH_SIZE
BatchFull(b) == Len(b) >= BATCH_SIZE

\* a variant that forgets the records left over after the last line
NeedsFlushNever(b) == FALSE

\* a variant that flushes whatever the batch holds
NeedsFlushAlways(b) == TRUE

\* if (batch.length)
NeedsFlush(b) == Len(b) > 0

\* a variant that does not await upsertBatch
CanTakeLineNoAwait == pc \in {"reading", "upsert_wait"}

\* `for await (const line of rl)` hands over the next line when the loop
\* body, with its `await upsertBatch(...)`, has completed
CanTakeLine == pc = "reading"

\* a variant that treats an error of the stream as the end of the input
OnStreamErrorEndsInput == "reading"

\* an error of the input stream rejects the loop and run()
OnStreamError == "failed"

\* a variant that keeps the delivered records in the batch
BatchNotCleared(b) == b

\* batch = [] after a delivered batch
BatchAfterUpsert(b) == <<>>

\* a variant that skips an index
NextBatchIndexSkip(i) == i + 2

\* a variant that never advances the index
NextBatchIndexStuck(i) == i

\* batchIndex++
NextBatchIndex(i) == i + 1

\* a variant that catches the error of upsertBatch and goes on
OnUpsertThrowSwallowed == "upsert_returned"

\* run().catch(...): an error thrown by upsertBatch ends the run
OnUpsertThrow == "failed"

(* ------------------------------- Init ---------------------------------- *)
\* BATCH_SIZE and UPSERT_RETRIES are read from the environment once
\* (defaults 500 and 5); here they range over the positive integers up to
\* the bounds.  The line loop's variables start as run() declares them.
InitRun ==
    /\ pc = "idle"
    /\ error = "none"
    /\ download_id = 0
    /\ firstBuf = <<>>
    /\ gatewayLog = <<>>
    /\ downloads = 0
    /\ dump = <<>>
    /\ chunksRead = 0
    /\ queued = 0
    /\ pumpClosed = FALSE
    /\ input = <<>>
    /\ batch = <<>>
    /\ kept = 0
    /\ scanned = 0
    /\ skipped = 0
    /\ batchIndex = 0
    /\ payload = NoPayload
    /\ attempt = 0
    /\ site = "none"
    /\ requests = <<>>
    /\ responses = <<>>
    /\ sleeps = <<>>
    /\ returns = <<>>
    /\ report = [summary |-> NoSummary, exitCode |-> StillRunning]

\* the filters at their defaults; no record has been judged on its own
InitPolicy ==
    policy = [filters |-> DefaultFilters, hotel |-> NoHotel,
              verdict |-> "none"]

\* completeDump() has not been called
InitTracker == tracker = "idle"

\* fetchDumpStreamWithRetry() has not been called; retries defaults to 1
InitFetcher ==
    fetcher = [retries |-> 1, pc |-> "idle", attempt |-> 0, log |-> <<>>,
               lastErr |-> "null", fetched |-> 0]

Init ==
    /\ BATCH_SIZE \in 1..MaxBatchSize
    /\ UPSERT_RETRIES \in 1..MaxRetries
    /\ InitRun
    /\ InitPolicy
    /\ InitTracker
    /\ InitFetcher

(* ---------------------- the end of the process ------------------------- *)
\* a variant whose catch handler exits with the success code
ExitCodeOnFatalZero == ExitCodeOnSuccess

\* process.exit(1) in run().catch(...)
ExitCodeOnFatal == 1

\* run() settles with the step that sets pc to p.  When it resolves,
\* "Done. Kept: ..., Scanned: ..., Skipped: ..." has been logged and the
\* process ends by itself; when it rejects, the catch handler logs the
\* error and calls process.exit(1).
Terminate(p) ==
    report' =
        [summary |-> IF p = "done"
                     THEN [kept |-> kept, scanned |-> scanned,
                           skipped |-> skipped]
                     ELSE summary,
         exitCode |-> IF p = "done" THEN ExitCodeOnSuccess
                      ELSE IF p = "failed" THEN ExitCodeOnFatal
                      ELSE exitCode]

(* ------------------------- run(): the prelude -------------------------- *)
\* const download_id = `render-${Date.now()}`; then the gateway is called
Start(now) ==
    /\ pc = "idle"
    /\ download_id' = now
    /\ pc' = "locating"
    /\ UNCHANGED <<config, side, report,
                   prelude, stream, error, firstBuf, loopState, callState, logs>>

\* a variant that does not look at res.ok
GatewayFailsIgnoringStatus(res) == res.json # "url"

\* !res.ok || !json?.data?.url
GatewayFails(res) == ~res.ok \/ res.json # "url"

\* getDumpUrlViaGateway(): the gateway answers; a failure throws
LocatorResponds(res) ==
    /\ pc = "locating"
    /\ gatewayLog' = Append(gatewayLog, res)
    /\ IF GatewayFails(res)
       THEN pc' = "failed" /\ error' = "gateway"
       ELSE pc' = "downloading" /\ error' = error
    /\ UNCHANGED <<config, side,
                   downloads, dump, stream, download_id, firstBuf,
                   loopState, callState, logs>>
    /\ Terminate(pc')

\* fetch(dumpUrl): !dumpRes.ok throws, else body is the dump
DownloadResponds(ok, body) ==
    /\ pc = "downloading"
    /\ downloads' = downloads + 1
    /\ IF ok
       THEN pc' = "first_chunk" /\ error' = error /\ dump' = body
       ELSE pc' = "failed" /\ error' = "download" /\ dump' = dump
    /\ UNCHANGED <<config, side, gatewayLog, stream, download_id, firstBuf,
                   loopState, callState, logs>>
    /\ Terminate(pc')

\* first = await reader.read(); the empty-body and magic checks; then the
\* rebuilt stream starts with controller.enqueue(first.value)
FirstChunk ==
    /\ pc = "first_chunk"
    /\ IF Len(dump) = 0
       THEN /\ pc' = "failed"
            /\ error' = "empty_body"
            /\ UNCHANGED <<firstBuf, stream>>
       ELSE /\ firstBuf' = dump[1]
            /\ IF ~looksLikeZstdMagic(dump[1])
               THEN /\ pc' = "failed"
                    /\ error' = "magic"
                    /\ UNCHANGED stream
               ELSE /\ pc' = "reading"
                    /\ error' = error
                    /\ chunksRead' = 1
                    /\ queued' = 1
                    /\ pumpClosed' = FALSE
    /\ UNCHANGED <<config, side,
                   prelude, download_id, loopState, callState, logs>>
    /\ Terminate(pc')

(* ----------------------- run(): the line loop -------------------------- *)
\* one iteration of `for await (const line of rl)`, up to the await of
\* upsertBatch when the batch is full
ReadLine(kind) ==
    LET line == [n |-> Len(input) + 1, kind |-> kind]
        parsed == JsonParse(line)
        pushed == Append(batch, parsed.obj)
    IN  /\ CanTakeLine
        /\ Len(input) < MaxLines
        /\ input' = Append(input, line)
        /\ IF IsBlankLine(line)
           THEN UNCHANGED <<pc, batch, counters, callState>>
           ELSE IF ~parsed.ok
           THEN /\ skipped' = SkippedAfterBadLine(skipped)
                /\ UNCHANGED <<pc, batch, kept, scanned, callState>>
           ELSE IF ~isCompleteHotel(parsed.obj)
           THEN /\ scanned' = scanned + 1
                /\ skipped' = skipped + 1
                /\ UNCHANGED <<pc, batch, kept, callState>>
           ELSE /\ scanned' = scanned + 1
                /\ batch' = pushed
                /\ kept' = kept + 1
                /\ skipped' = skipped
                /\ IF BatchFull(pushed)
                   THEN /\ payload' = Payload(download_id, pushed, batchIndex)
                        /\ attempt' = 1
                        /\ site' = "loop"
                        /\ pc' = "upsert_loop"
                   ELSE UNCHANGED <<pc, callState>>
        /\ UNCHANGED <<config, side, report,
                       prelude, stream, error, download_id, firstBuf, batchIndex, logs>>

\* batch = []; batchIndex++; rl.resume() once upsertBatch has returned
ResumeAfterUpsert ==
    /\ pc = "upsert_returned"
    /\ site = "loop"
    /\ batch' = BatchAfterUpsert(batch)
    /\ batchIndex' = NextBatchIndex(batchIndex)
    /\ pc' = "reading"
    /\ UNCHANGED <<config, side, report,
                   prelude, stream, error, download_id, firstBuf, input, counters,
                   callState, logs>>

\* the loop ends: if (batch.length) await upsertBatch(...)
EndOfInput ==
    /\ pc = "reading"
    /\ IF NeedsFlush(batch)
       THEN /\ payload' = Payload(download_id, batch, batchIndex)
            /\ attempt' = 1
            /\ site' = "flush"
            /\ pc' = "upsert_loop"
       ELSE /\ pc' = "done"
            /\ UNCHANGED callState
    /\ UNCHANGED <<config, side,
                   prelude, stream, error, download_id, firstBuf, loopState, logs>>
    /\ Terminate(pc')

\* the decompressed stream errors (transport or zstd error): the loop throws
StreamError ==
    /\ pc = "reading"
    /\ pc' = OnStreamError
    /\ error' = "stream"
    /\ UNCHANGED <<config, side,
                   prelude, stream, download_id, firstBuf, loopState,
                   callState, logs>>
    /\ Terminate(pc')

\* the final upsertBatch has returned: "Done." is logged
FinishAfterFlush ==
    /\ pc = "upsert_returned"
    /\ site = "flush"
    /\ pc' = "done"
    /\ UNCHANGED <<config, side,
                   prelude, stream, error, download_id, firstBuf, loopState,
                   callState, logs>>
    /\ Terminate(pc')

(* --------------------------- upsertBatch() ----------------------------- *)
\* the answers so far that were not the plain success
Faults ==
    Cardinality({j \in 1..Len(responses) : responses[j] # PlainSuccess})

\* the different answers so far that were not the plain success
FaultKinds == {responses[j] : j \in 1..Len(responses)} \ {PlainSuccess}

\* the run may go on after answer res: the sink has given fewer than
\* MaxFaults answers other than the plain success, of fewer than
\* MaxFaultKinds kinds other than that of res
WithinFaultBudget(res) ==
    /\ Faults < MaxFaults
    /\ res \in FaultKinds \/ Cardinality(FaultKinds) < MaxFaultKinds

\* the head of `for (attempt = 1; attempt <= UPSERT_RETRIES; attempt++)`:
\* the request is sent, or the loop ends and the function returns undefined
UpsertLoop ==
    /\ pc = "upsert_loop"
    /\ IF attempt <= UPSERT_RETRIES
       THEN /\ requests' = Append(requests, RequestBody(payload))
            /\ pc' = "upsert_wait"
            /\ returns' = returns
       ELSE /\ returns' = Append(returns, payload.batch_index)
            /\ pc' = "upsert_returned"
            /\ requests' = requests
    /\ UNCHANGED <<config, side, report,
                   prelude, stream, error, download_id, firstBuf, loopState,
                   callState, responses, sleeps>>

\* the sink's response arrives: return, throw, or warn and sleep
SinkResponds(res) ==
    /\ pc = "upsert_wait"
    /\ responses' = Append(responses, res)
    /\ IF IsDelivered(res)
       THEN /\ res = PlainSuccess \/ WithinFaultBudget(res)
            /\ pc' = "upsert_returned"
            /\ returns' = Append(returns, payload.batch_index)
            /\ UNCHANGED <<error, sleeps>>
       ELSE IF ~Retryable(res.status) \/ LastAttempt(attempt)
       THEN /\ pc' = OnUpsertThrow
            /\ error' = "upsert"
            /\ UNCHANGED <<sleeps, returns>>
       ELSE /\ WithinFaultBudget(res)
            /\ sleeps' = Append(sleeps, [request |-> Len(requests),
                                         ms |-> BackoffMs(attempt)])
            /\ pc' = "upsert_sleep"
            /\ UNCHANGED <<error, returns>>
    /\ UNCHANGED <<config, side,
                   prelude, stream, download_id, firstBuf, loopState, callState,
                   requests>>
    /\ Terminate(pc')

\* fetch() rejects: the error leaves upsertBatch and run()
FetchRejects ==
    /\ pc = "upsert_wait"
    /\ responses' = Append(responses, NetworkError)
    /\ pc' = OnUpsertThrow
    /\ error' = "network"
    /\ UNCHANGED <<config, side,
                   prelude, stream, download_id, firstBuf, loopState, callState,
                   requests, sleeps, returns>>
    /\ Terminate(pc')

\* sleep(UPSERT_RETRY_MS * attempt) is over: attempt++
SleepDone ==
    /\ pc = "upsert_sleep"
    /\ attempt' = attempt + 1
    /\ pc' = "upsert_loop"
    /\ UNCHANGED <<config, side, report,
                   prelude, stream, error, download_id, firstBuf, loopState,
                   payload, site, logs>>

(* ----------------------- the rebuilt web stream ------------------------ *)
\* the async loop in start(controller): reader.read(), then
\* controller.enqueue(value), or controller.close() when done
PumpChunk ==
    /\ pc \in {"reading", "upsert_loop", "upsert_wait", "upsert_sleep",
               "upsert_returned"}
    /\ ~pumpClosed
    /\ IF chunksRead < Len(dump)
       THEN /\ chunksRead' = chunksRead + 1
            /\ queued' = queued + 1
            /\ pumpClosed' = pumpClosed
       ELSE /\ pumpClosed' = TRUE
            /\ UNCHANGED <<chunksRead, queued>>
    /\ UNCHANGED <<config, side, report,
                   prelude, pc, error, download_id, firstBuf,
                   loopState, callState, logs>>

\* Readable.fromWeb(rebuiltWebStream) takes a chunk for the decompressor
\* while the line loop is consuming
ConsumeChunk ==
    /\ pc = "reading"
    /\ queued > 0
    /\ queued' = queued - 1
    /\ UNCHANGED <<config, side, report,
                   prelude, chunksRead, pumpClosed, pc, error,
                   download_id, firstBuf, loopState, callState, logs>>

(* ------------------- isCompleteHotel() on its own --------------------- *)
\* if (!isCompleteHotel(obj)) ... applied to one decoded record
Validate ==
    /\ verdict = "none"
    /\ policy' = [policy EXCEPT
                     !.verdict = IF isCompleteHotel(hotel)
                                 THEN "accept"
                                 ELSE "reject"]
    /\ UNCHANGED <<config, worker, tracker, fetcher>>

(* ------- fetchDumpStreamWithRetry() of src/unnamed/part_007 ------------ *)
\* what one fetch(dumpUrl) of the function comes to: an ok response with
\* a body, a response that is not ok, an ok response without a body, a
\* rejected fetch
FetchOutcomes == {"ok", "status_403", "status_500", "no_body", "network"}

\* a variant that goes round once more
MoreAttemptsOffByOne(a, r) == a <= r + 1

\* attempt <= retries
MoreAttempts(a, r) == a <= r

\* let lastErr = null; for (let attempt = 0; ...
FetchCall ==
    /\ fetchPc = "idle"
    /\ fetcher' = [fetcher EXCEPT !.attempt = 0, !.lastErr = "null",
                                  !.pc = "loop"]
    /\ UNCHANGED <<config, worker, policy, tracker>>

\* the head of the for loop: fetch(dumpUrl) is called, or the loop is
\* over and lastErr is thrown
FetchLoop ==
    /\ fetchPc = "loop"
    /\ fetcher' = [fetcher EXCEPT
                      !.pc = IF MoreAttempts(fetchAttempt, retries)
                             THEN "wait"
                             ELSE "thrown"]
    /\ UNCHANGED <<config, worker, policy, tracker>>

\* the try block: an ok response with a body returns its stream; anything
\* else throws, the catch stores the error and the loop goes on
FetchDumpResponds(o) ==
    /\ fetchPc = "wait"
    /\ fetcher' =
           IF o = "ok"
           THEN [fetcher EXCEPT !.log = Append(fetchLog, o),
                                !.fetched = Len(fetchLog) + 1,
                                !.pc = "returned"]
           ELSE [fetcher EXCEPT !.log = Append(fetchLog, o),
                                !.lastErr = o,
                                !.attempt = fetchAttempt + 1,
                                !.pc = "loop"]
    /\ UNCHANGED <<config, worker, policy, tracker>>

(* ------------- completeDump() of src/unnamed/part_003 ------------------ *)
\* after the last batch run() awaits completeDump(), which returns at
\* once when RATEHAWK_DUMP_COMPLETE_URL is not configured
CompleteDump(configured) ==
    /\ pc = "done"
    /\ tracker = "idle"
    /\ tracker' = IF configured THEN "calling" ELSE "skipped"
    /\ UNCHANGED <<config, worker, policy, fetcher>>

\* the tracker answers: if (!res.ok) console.log("dump-complete failed")
CompleteDumpResponds(ok) ==
    /\ tracker = "calling"
    /\ tracker' = IF ok THEN "notified" ELSE "warned"
    /\ UNCHANGED <<config, worker, policy, fetcher>>

\* fetch() rejects: nothing catches it in completeDump() or in run(), so
\* the catch handler of run() logs it and calls process.exit(1)
CompleteDumpRejects ==
    /\ tracker = "calling"
    /\ tracker' = "rejected"
    /\ pc' = "failed"
    /\ error' = "tracker"
    /\ report' = [report EXCEPT !.exitCode = ExitCodeOnFatal]
    /\ UNCHANGED <<config, download_id, firstBuf, prelude, stream, loopState,
                   callState, logs, policy, fetcher>>

(* ------------ completeSession() of src/unnamed/part_000 ---------------- *)
\* after the last batch run() awaits completeSession(), which posts the
\* totals with postJson()
CompleteSession ==
    /\ pc = "done"
    /\ tracker = "idle"
    /\ tracker' = "posting"
    /\ UNCHANGED <<config, worker, policy, fetcher>>

\* postJson(): if (!res.ok || json?.success === false) throw; the error
\* leaves completeSession() and run(), whose catch handler exits with 1
PostJsonResponds(ok) ==
    /\ tracker = "posting"
    /\ IF ok
       THEN /\ tracker' = "notified"
            /\ UNCHANGED <<pc, error, report>>
       ELSE /\ tracker' = "threw"
            /\ pc' = "failed"
            /\ error' = "tracker"
            /\ report' = [report EXCEPT !.exitCode = ExitCodeOnFatal]
    /\ UNCHANGED <<config, download_id, firstBuf, prelude, stream, loopState,
                   callState, logs, policy, fetcher>>

(* ------------------------ a termination signal ------------------------- *)
\* the exit code of a process ended by SIGTERM
ExitCodeOnSignal == 128 + 15

\* SIGTERM or SIGINT reaches the process: no handler is installed, so the
\* process ends at once, wherever run() is
Signal ==
    /\ pc \notin {"done", "failed", "killed"}
    /\ pc' = "killed"
    /\ error' = "signal"
    /\ report' = [report EXCEPT !.exitCode = ExitCodeOnSignal]
    /\ UNCHANGED <<config, download_id, firstBuf, prelude, stream, loopState,
                   callState, logs, side>>

(* ---------------------------- specification ---------------------------- *)
Next ==
    \/ \E now \in {RunStartedAt} : Start(now)
    \/ \E res \in GatewayResponses : LocatorResponds(res)
    \/ \E ok \in BOOLEAN, body \in Dumps : DownloadResponds(ok, body)
    \/ FirstChunk
    \/ \E kind \in LineKinds : ReadLine(kind)
    \/ ResumeAfterUpsert
    \/ EndOfInput
    \/ StreamError
    \/ FinishAfterFlush
    \/ UpsertLoop
    \/ \E res \in SinkResponses : SinkResponds(res)
    \/ FetchRejects
    \/ SleepDone

Spec == Init /\ [][Next]_vars

\* the run together with the chunk traffic of the rebuilt stream
NextStream ==
    \/ Next
    \/ PumpChunk
    \/ ConsumeChunk

SpecStream == Init /\ [][NextStream]_vars

\* UPSERT_RETRIES over the non-negative integers: Number("0") is 0
InitAnyRetries ==
    /\ BATCH_SIZE \in 1..MaxBatchSize
    /\ UPSERT_RETRIES \in 0..MaxRetries
    /\ InitRun
    /\ InitPolicy
    /\ InitTracker
    /\ InitFetcher

SpecAnyRetries == InitAnyRetries /\ [][Next]_vars

\* isCompleteHotel() applied to any record under any filter configuration
InitValidator ==
    /\ BATCH_SIZE \in 1..MaxBatchSize
    /\ UPSERT_RETRIES \in 1..MaxRetries
    /\ InitRun
    /\ policy \in [filters : FilterConfigs,
                    hotel : {HotelOfLine(1, row) : row \in Hotels},
                    verdict : {"none"}]
    /\ InitTracker
    /\ InitFetcher

NextValidator == Validate

SpecValidator == InitValidator /\ [][NextValidator]_vars

\* fetchDumpStreamWithRetry(dumpUrl, retries) for any retries
InitFetch ==
    /\ BATCH_SIZE \in 1..MaxBatchSize
    /\ UPSERT_RETRIES \in 1..MaxRetries
    /\ InitRun
    /\ InitPolicy
    /\ InitTracker
    /\ fetcher \in [retries : 0..MaxFetchRetries, pc : {"idle"},
                     attempt : {0}, log : {<<>>}, lastErr : {"null"},
                     fetched : {0}]

NextFetch ==
    \/ FetchCall
    \/ FetchLoop
    \/ \E o \in FetchOutcomes : FetchDumpResponds(o)

SpecFetch == InitFetch /\ [][NextFetch]_vars

\* the run followed by the notification of the session tracker, as
\* src/unnamed/part_003 or as src/unnamed/part_000 makes it
NextTracker ==
    \/ Next
    \/ \E configured \in BOOLEAN : CompleteDump(configured)
    \/ \E ok \in BOOLEAN : CompleteDumpResponds(ok)
    \/ CompleteDumpRejects
    \/ CompleteSession
    \/ \E ok \in BOOLEAN : PostJsonResponds(ok)

SpecTracker == Init /\ [][NextTracker]_vars

\* the run with a termination signal at any moment
NextSignal ==
    \/ Next
    \/ Signal

SpecSignal == Init /\ [][NextSignal]_vars

TypeOK ==
    /\ pc \in {"idle", "locating", "downloading", "first_chunk", "reading",
               "upsert_loop", "upsert_wait", "upsert_sleep",
               "upsert_returned", "done", "failed", "killed"}
    /\ kept \in Nat /\ scanned \in Nat /\ skipped \in Nat
    /\ batchIndex \in Nat
    /\ Len(responses) <= Len(requests)

(* ------------------- what the logs say, in the spec's terms ------------ *)
\* statuses the specification calls retryable
SpecRetryableStatuses == {408, 429, 500, 502, 503, 504}

\* the sink acknowledged the request: a success status, no success=false
SinkAccepted(res) ==
    res.status >= 200 /\ res.status <= 299 /\ res.body # "success_false"

\* the sink answered with a status the specification calls retryable
SinkRetryable(res) == res.status \in SpecRetryableStatuses

\* the sink answered with a failure the specification calls terminal
SinkTerminal(res) ==
    /\ res # NetworkError
    /\ ~SinkAccepted(res)
    /\ ~SinkRetryable(res)

\* the requests sent for batch idx
RequestsFor(idx) == {j \in 1..Len(requests) : requests[j].batch_index = idx}

RECURSIVE AcceptedFrom(_)
\* the requests the sink acknowledged, from request j on, in order
AcceptedFrom(j) ==
    IF j > Len(responses)
    THEN <<>>
    ELSE (IF SinkAccepted(responses[j]) THEN <<requests[j]>> ELSE <<>>)
             \o AcceptedFrom(j + 1)

\* the batches the sink acknowledged, in order
DeliveredBatches == AcceptedFrom(1)

RECURSIVE ConcatIds(_)
\* the ids of the records of a sequence of batches, concatenated
ConcatIds(bs) ==
    IF bs = <<>>
    THEN <<>>
    ELSE [i \in 1..Len(Head(bs).hotels) |-> Head(bs).hotels[i].line]
             \o ConcatIds(Tail(bs))

RECURSIVE AcceptedIds(_)
\* the ids (line numbers) of the lines that decode to a complete hotel
AcceptedIds(ls) ==
    IF ls = <<>>
    THEN <<>>
    ELSE (IF Head(ls).kind = "complete" THEN <<Head(ls).n>> ELSE <<>>)
             \o AcceptedIds(Tail(ls))

\* ceil(n / d)
CeilDiv(n, d) == (n + d - 1) \div d

(* ------------------------------- claims -------------------------------- *)
\* C1: at run completion scanned = kept + skipped, for every input stream,
\* malformed JSON lines included.
C1_ScannedIsKeptPlusSkipped ==
    pc = "done" => scanned = kept + skipped

\* C2: in a successful run the batch_index values handed to the sink are
\* exactly 0 .. B-1 with B = ceil(kept / batch_size), acknowledged in the
\* order 0, 1, ..., B-1 with no gap and no repeat.
C2_BatchIndexGapless ==
    pc = "done" =>
        LET B == CeilDiv(kept, BATCH_SIZE)
            D == DeliveredBatches
        IN  /\ {requests[j].batch_index : j \in 1..Len(requests)} = 0..(B - 1)
            /\ Len(D) = B
            /\ \A i \in 1..B : D[i].batch_index = i - 1

C2_Witness ==
    /\ pc = "done"
    /\ BATCH_SIZE = 2
    /\ kept = 3
    /\ Len(DeliveredBatches) = 2
    /\ Len(requests) > 2

\* C3: in a successful run the delivered batches, concatenated in
\* batch_index order, are the accepted records in input order: each one
\* once, none missing, invalid lines in between changing nothing.
C3_DeliveredIsAcceptedInOrder ==
    pc = "done" => ConcatIds(DeliveredBatches) = AcceptedIds(input)

C3_Witness ==
    /\ pc = "done"
    /\ Len(DeliveredBatches) >= 2
    /\ \E i, j, k \in 1..Len(input) :
        /\ i < j /\ j < k
        /\ input[i].kind = "complete"
        /\ input[j].kind = "malformed"
        /\ input[k].kind = "complete"

\* C4: a network error, or a status in 408/429/500/502/503/504, is retried
\* while attempts remain: a run that failed on such an outcome had sent
\* UPSERT_RETRIES requests for that batch.
C4_RetryableFailureIsRetried ==
    (/\ pc = "failed"
     /\ error \in {"upsert", "network"}
     /\ (responses[Len(responses)] = NetworkError
            \/ SinkRetryable(responses[Len(responses)])))
        => Cardinality(RequestsFor(requests[Len(requests)].batch_index))
               >= UPSERT_RETRIES

\* C5: a terminal answer of the sink (a failure status outside the
\* retryable ones, or a success status with success=false) fails the run at
\* once: it is the last request of the run, no sleep follows it, and the
\* batches reported delivered are the ones acknowledged before it.
C5_TerminalFailureIsImmediate ==
    \A j \in 1..Len(responses) :
        SinkTerminal(responses[j]) =>
            /\ pc = "failed"
            /\ j = Len(requests)
            /\ \A k \in 1..Len(sleeps) : sleeps[k].request < j
            /\ Len(returns) = Len(DeliveredBatches)
            /\ Len(returns) = requests[j].batch_index

C5_Witness ==
    /\ pc = "failed"
    /\ Len(responses) = 1
    /\ responses[1].status = 400
    /\ requests[1].batch_index = 0
    /\ UPSERT_RETRIES > 1
    /\ returns = <<>>

\* C6: at most UPSERT_RETRIES requests are sent for one batch, and when
\* all of them were answered with a retryable status the run has failed
\* and the batch is not reported delivered.
C6_RetriesBounded ==
    \A idx \in 0..MaxLines :
        /\ Cardinality(RequestsFor(idx)) <= UPSERT_RETRIES
        /\ (/\ Cardinality(RequestsFor(idx)) = UPSERT_RETRIES
            /\ \A j \in RequestsFor(idx) :
                j <= Len(responses) /\ SinkRetryable(responses[j]))
               => (/\ pc = "failed"
                   /\ error = "upsert"
                   /\ \A r \in 1..Len(returns) : returns[r] # idx)

C6_Witness ==
    /\ pc = "failed"
    /\ UPSERT_RETRIES = 3
    /\ Len(requests) = 3
    /\ \A j \in 1..3 :
        requests[j].batch_index = 0 /\ SinkRetryable(responses[j])

\* C7: when the sink answers k retryable statuses and then success, the
\* batch took exactly k+1 requests and k sleeps, its index is reported
\* delivered once and never requested again, and its delivery did not fail
\* the run.
C7_SuccessAfterRetries ==
    \A j \in 1..Len(responses) :
        SinkAccepted(responses[j]) =>
            LET idx == requests[j].batch_index
                first == CHOOSE i \in RequestsFor(idx) :
                            \A m \in RequestsFor(idx) : i <= m
            IN  /\ RequestsFor(idx) = first..j
                /\ \A i \in first..(j - 1) : SinkRetryable(responses[i])
                /\ {sleeps[k].request : k \in 1..Len(sleeps)} \cap (first..j)
                       = first..(j - 1)
                /\ Cardinality({r \in 1..Len(returns) : returns[r] = idx}) = 1
                /\ (pc = "failed" /\ error \in {"upsert", "network"})
                       => j < Len(responses)

C7_Witness ==
    /\ pc = "done"
    /\ Len(responses) = 3
    /\ responses[1].status = 503
    /\ responses[2].status = 503
    /\ responses[3].status = 200
    /\ returns = <<0>>
    /\ Len(sleeps) = 2

\* C8: every request for one batch, first attempt and retries, is the
\* same: the request that follows an unacknowledged one repeats its
\* download_id, batch_index and records.
C8_RetrySendsSameRequest ==
    \A j \in 1..(Len(requests) - 1) :
        ~SinkAccepted(responses[j]) => requests[j + 1] = requests[j]

C8_Witness ==
    /\ Len(requests) = 2
    /\ SinkRetryable(responses[1])
    /\ Len(requests[2].hotels) = 2

\* C9: download_id is set once at run start and never changes, and every
\* request of the run carries it.
C9_DownloadIdConstant ==
    /\ [](\A j \in 1..Len(requests) : requests[j].download_id = download_id)
    /\ [][pc # "idle" => download_id' = download_id]_vars

C9_Witness ==
    /\ download_id = RunStartedAt
    /\ Len(requests) >= 3
    /\ requests[1].batch_index = 0
    /\ requests[Len(requests)].batch_index = 1

\* C10: requests go out in increasing batch_index order starting at 0; a
\* request for the next index follows an acknowledged request for the
\* previous one; at most one request is without an answer.
C10_OneDeliveryAtATime ==
    /\ Len(requests) - Len(responses) \in {0, 1}
    /\ Len(requests) > 0 => requests[1].batch_index = 0
    /\ \A j \in 2..Len(requests) :
        \/ /\ requests[j].batch_index = requests[j - 1].batch_index
           /\ SinkRetryable(responses[j - 1])
        \/ /\ requests[j].batch_index = requests[j - 1].batch_index + 1
           /\ SinkAccepted(responses[j - 1])

C10_Witness ==
    /\ pc = "upsert_wait"
    /\ Len(requests) = 3
    /\ requests[2].batch_index = 0
    /\ requests[3].batch_index = 1

(* ------------------------- claims C11 .. C20 --------------------------- *)
\* the default highWaterMark of `new ReadableStream({ start })`, in chunks
QueueHighWaterMark == 1

\* the magic header the specification names: 28 B5 2F FD
SpecMagic == <<40, 181, 47, 253>>

\* a delivery is outstanding: requests, retries and backoff sleeps
Delivering == pc \in {"upsert_loop", "upsert_wait", "upsert_sleep"}

\* this step takes a line of one of the kinds ks from the input
TakesLine(ks) ==
    /\ Len(input') = Len(input) + 1
    /\ input'[Len(input')].kind \in ks

RECURSIVE StreamBytes(_)
\* the bytes of a body, whatever its chunks
StreamBytes(chunks) ==
    IF chunks = <<>> THEN <<>> ELSE Head(chunks) \o StreamBytes(Tail(chunks))

\* the first four bytes of a body (fewer when the body is shorter)
FirstFour(chunks) ==
    SubSeq(StreamBytes(chunks), 1,
           IF Len(StreamBytes(chunks)) < 4 THEN Len(StreamBytes(chunks)) ELSE 4)

\* C11: while a delivery is outstanding no line is taken, no counter moves
\* and no record is added to the batch; a line is taken only when every
\* request so far was answered and the last answer was a success.
C11_NoLineWhileDelivering ==
    [][/\ Delivering =>
            /\ input' = input
            /\ batch' = batch
            /\ kept' = kept /\ scanned' = scanned /\ skipped' = skipped
       /\ input' # input =>
            /\ Len(requests) = Len(responses)
            /\ requests # <<>> => SinkAccepted(responses[Len(responses)])]_vars

C11_Witness ==
    /\ pc = "reading"
    /\ Len(input) = 3
    /\ Len(requests) = 2
    /\ Len(sleeps) = 1
    /\ Len(requests[2].hotels) = 1
    /\ requests[2].hotels[1].line = 1

\* C12: while the consumer is stalled by a delivery, the chunks read from
\* the dump download and not yet consumed stay within the stream's
\* high-water mark, whatever the size of the dump.
C12_QueueBounded ==
    Delivering => queued <= QueueHighWaterMark

C14_BatchSizes ==
    pc = "done" =>
        LET D == DeliveredBatches
            q == kept \div BATCH_SIZE
            r == kept % BATCH_SIZE
        IN  /\ Len(D) = q + (IF r = 0 THEN 0 ELSE 1)
            /\ \A i \in 1..q :
                Len(D[i].hotels) = BATCH_SIZE /\ D[i].batch_index = i - 1
            /\ r # 0 =>
                Len(D[q + 1].hotels) = r /\ D[q + 1].batch_index = q

C14_Witness ==
    /\ pc = "done"
    /\ BATCH_SIZE = 2
    /\ kept = BATCH_SIZE + 1
    /\ Len(DeliveredBatches) = 2
    /\ Len(DeliveredBatches[1].hotels) = 2
    /\ Len(DeliveredBatches[2].hotels) = 1

\* C15: a line that fails JSON decoding adds one to skipped, leaves kept
\* and the batch alone, and the loop goes on to the next line.
C15_BadLineSkipped ==
    [][TakesLine({"malformed"}) =>
            /\ skipped' = skipped + 1
            /\ kept' = kept
            /\ batch' = batch
            /\ pc' = "reading"
            /\ error' = "none"]_vars

C15_Witness ==
    /\ pc = "done"
    /\ Len(input) = 3
    /\ input[2].kind = "malformed"
    /\ input[3].kind = "complete"
    /\ skipped = 1
    /\ kept = 2

\* C16: scanned counts the lines that decoded, accepted or rejected, once
\* each; a rejected record also adds one to skipped and leaves kept and the
\* batch alone.
C16_ScannedPerDecodedLine ==
    /\ [](scanned = Cardinality({i \in 1..Len(input) :
                        input[i].kind \in {"incomplete", "complete"}}))
    /\ [][/\ TakesLine({"incomplete", "complete"}) => scanned' = scanned + 1
          /\ TakesLine({"incomplete"}) =>
                /\ skipped' = skipped + 1
                /\ kept' = kept
                /\ batch' = batch]_vars

C16_Witness ==
    /\ Len(input) = 3
    /\ input[1].kind = "complete"
    /\ input[2].kind = "incomplete"
    /\ input[3].kind = "malformed"
    /\ scanned = 2
    /\ skipped = 2
    /\ kept = 1

\* C17: a blank line changes nothing: the counters, batchIndex, the batch
\* and the requests sent are the same after it.
C17_BlankLineNoEffect ==
    [][TakesLine({"blank"}) =>
            /\ UNCHANGED <<scanned, kept, skipped, batchIndex, batch>>
            /\ UNCHANGED <<requests, pc>>]_vars

C17_Witness ==
    /\ Len(input) = 2
    /\ input[1].kind = "complete"
    /\ input[2].kind = "blank"
    /\ batch # <<>>
    /\ kept = 1
    /\ skipped = 0

\* C18: when the first four bytes of the download are not 28 B5 2F FD the
\* run has failed with the format error, with no line taken, no batch
\* built and no request sent.
C18_BadMagicFailsEarly ==
    (/\ dump # <<>>
     /\ pc # "first_chunk"
     /\ FirstFour(dump) # SpecMagic)
        => /\ pc = "failed"
           /\ error = "magic"
           /\ input = <<>>
           /\ batch = <<>>
           /\ requests = <<>>

C18_Witness ==
    /\ pc = "failed"
    /\ error = "magic"
    /\ firstBuf = <<60, 104, 116, 109, 108>>

\* C19: the gateway is asked once; when its answer is a failure (not ok,
\* unparsable, or without a url) the run has failed with no download
\* started and no request sent.
C19_LocatorFailureFatal ==
    /\ Len(gatewayLog) <= 1
    /\ \A i \in 1..Len(gatewayLog) :
        (~gatewayLog[i].ok \/ gatewayLog[i].json # "url")
            => /\ pc = "failed"
               /\ error = "gateway"
               /\ downloads = 0
               /\ requests = <<>>

C19_Witness ==
    /\ pc = "failed"
    /\ gatewayLog = <<[ok |-> FALSE, json |-> "url"]>>
    /\ downloads = 0

\* C20: once an error was raised the run is failed and stays failed: no
\* request is outstanding or sent afterwards, and the records of the
\* in-progress batch of a run that failed while reading are in no request.
C20_FailureIsFinal ==
    /\ [](error # "none" =>
            /\ pc = "failed"
            /\ Len(requests) = Len(responses)
            /\ error = "stream" =>
                \A i \in 1..Len(batch) : \A j \in 1..Len(requests) :
                    \A k \in 1..Len(requests[j].hotels) :
                        requests[j].hotels[k] # batch[i])
    /\ [][pc = "failed" => (pc' = "failed" /\ requests' = requests)]_vars

C20_Witness ==
    /\ pc = "failed"
    /\ error = "stream"
    /\ Len(batch) = 1
    /\ Len(DeliveredBatches) = 1

(* ------------------------------ C21 ------------------------------------ *)
\* C21: on every terminal path, success and fatal failure alike, the run
\* has reported its counters (kept, scanned, skipped) as they stand at
\* termination.
C21_SummaryOnEveryTerminalPath ==
    pc \in {"done", "failed"} =>
        summary = [kept |-> kept, scanned |-> scanned, skipped |-> skipped]

(* ------------------------------ C22 ------------------------------------ *)
\* C22: the process exits with code 0 exactly when the run ended in
\* success, and with a non-zero code whenever the run failed, whichever
\* stage raised the error.
C22_ExitCodeMatchesOutcome ==
    /\ exitCode = 0 <=> pc = "done"
    /\ pc = "failed" => exitCode \notin {0, StillRunning}

C22_Witness ==
    /\ pc = "failed"
    /\ error = "upsert"
    /\ batchIndex = 1
    /\ exitCode = 1

(* ------------------------------ C23 ------------------------------------ *)
\* the stage of the specification's state machine a position belongs to:
\* Idle, Locating, Downloading, steady state, Completing, Terminal
Stage(p, s) ==
    CASE p = "idle" -> 0
      [] p = "locating" -> 1
      [] p \in {"downloading", "first_chunk"} -> 2
      [] p = "reading" -> 3
      [] p \in {"upsert_loop", "upsert_wait", "upsert_sleep",
                "upsert_returned"} -> IF s = "flush" THEN 4 ELSE 3
      [] OTHER -> 5

\* the last request carried exactly the records of b and was acknowledged
LastRequestDelivered(reqs, resps, b) ==
    /\ Len(reqs) > 0
    /\ Len(resps) = Len(reqs)
    /\ SinkAccepted(resps[Len(resps)])
    /\ reqs[Len(reqs)].hotels = b

\* C23: the run goes through Idle, Locating, Downloading, the steady
\* state, Completing and Terminal in that order: a step never goes back to
\* an earlier stage, it enters the next stage only, except that a failure
\* ends the run from any stage and that the steady state ends in success
\* directly when no partial batch is left; success is reached only with
\* the final partial batch delivered; and a terminal state is never left.
C23_StagesInOrder ==
    [][/\ Stage(pc', site') >= Stage(pc, site)
       /\ Stage(pc', site') > Stage(pc, site) =>
              \/ Stage(pc', site') = Stage(pc, site) + 1
              \/ pc' = "failed"
              \/ pc = "reading" /\ pc' = "done" /\ batch = <<>>
       /\ (pc # "done" /\ pc' = "done") =>
              \/ batch' = <<>>
              \/ LastRequestDelivered(requests', responses', batch')
       /\ pc \in {"done", "failed"} => UNCHANGED vars]_vars

C23_Witness ==
    /\ pc = "done"
    /\ site = "flush"
    /\ batchIndex = 1
    /\ Len(batch) = 1

(* ------------------------------ C24 ------------------------------------ *)
\* C24: a failure of the complete notification to the session tracker is
\* logged and not fatal: the run, whose batches were all delivered, still
\* ends in success.
C24_TrackerFailureNotFatal ==
    tracker \in {"warned", "rejected", "threw"} =>
        (pc = "done" /\ exitCode = 0)

C26_CancelLetsDeliveryFinish ==
    pc = "killed" => Len(responses) = Len(requests)

(* ------------------------------ C27 ------------------------------------ *)
\* an image entry that is a syntactically valid absolute URL
SpecValidUrl(x) == x = "https"

\* a number within [lo, hi]
SpecNumberIn(v, lo, hi) == v.t = "number" /\ v.n >= lo /\ v.n <= hi

\* the rules of the specification for a decoded record under filters f
SpecAccepts(h, f) ==
    /\ h.id.t = "string" /\ h.id.len > 0
    /\ h.name.t = "string" /\ h.name.tlen >= 2
    /\ h.star_rating.t = "number" /\ h.star_rating.n >= f.MIN_STAR_RATING
    /\ h.images.array
    /\ Len(SelectSeq(h.images.items, SpecValidUrl)) >= f.MIN_IMAGES
    /\ f.REQUIRE_GEO =>
           /\ SpecNumberIn(h.latitude, -90, 90)
           /\ SpecNumberIn(h.longitude, -180, 180)
    /\ f.REQUIRE_ADDRESS => (h.address.t = "string" /\ h.address.tlen > 0)
    /\ f.REQUIRE_COUNTRY =>
           /\ h.region.object
           /\ h.region.country_code.t = "string"
           /\ h.region.country_code.tlen = 2

\* C27: the validator accepts a decoded record exactly when the rules of
\* the specification hold for it under the configured filters.
C27_ValidatorRules ==
    verdict # "none" =>
        (verdict = "accept" <=> SpecAccepts(Fields(hotel), filters))

(* ------------------------------ C28 ------------------------------------ *)
\* C28: every record sent to the sink has an images list that holds
\* syntactically valid absolute URLs only.
C28_ImagesNormalized ==
    \A j \in 1..Len(requests) :
        \A i \in 1..Len(requests[j].hotels) :
            LET imgs == Fields(requests[j].hotels[i]).images.items
            IN  \A k \in 1..Len(imgs) : SpecValidUrl(imgs[k])

(* ------------------------------ C29 ------------------------------------ *)
\* the number of the attempt, within its batch, that request j is
AttemptOf(j) ==
    Cardinality({i \in RequestsFor(requests[j].batch_index) : i <= j})

\* C29: the delay slept after failed attempt a of a batch is the base
\* delay times a, a counted from 1 within every batch.
C29_LinearBackoff ==
    \A k \in 1..Len(sleeps) :
        sleeps[k].ms = UPSERT_RETRY_MS * AttemptOf(sleeps[k].request)

C29_Witness ==
    /\ Len(sleeps) = 2
    /\ sleeps[1].ms = UPSERT_RETRY_MS
    /\ sleeps[2].ms = 2 * UPSERT_RETRY_MS
    /\ AttemptOf(sleeps[2].request) = 2

(* ------------------------------ C30 ------------------------------------ *)
\* C30: for every non-negative UPSERT_RETRIES, each return of upsertBatch
\* follows a response of the sink that acknowledged a request of that
\* batch, and batchIndex never exceeds the number of acknowledged batches.
C30_ReturnNeedsAcknowledgement ==
    /\ \A r \in 1..Len(returns) :
           \E j \in RequestsFor(returns[r]) :
               j <= Len(responses) /\ SinkAccepted(responses[j])
    /\ batchIndex <= Len(DeliveredBatches)

(* ------------------------------ C31 ------------------------------------ *)
\* C31 as stated: at every point of a run batchIndex equals the number of
\* batches the sink has acknowledged.
C31_BatchIndexIsDeliveredCount == batchIndex = Len(DeliveredBatches)

\* C31, amended: batchIndex equals the number of acknowledged batches
\* while the run reads lines, while a delivery is going on and when the
\* run has failed; between the return of upsertBatch and batchIndex++ it
\* is one behind; and it is not advanced for the final partial batch, so
\* a run that ended in success after flushing one ends one behind.
C31_BatchIndexFollowsDeliveries ==
    /\ pc \notin {"upsert_returned", "done"} =>
           batchIndex = Len(DeliveredBatches)
    /\ pc = "upsert_returned" => Len(DeliveredBatches) = batchIndex + 1
    /\ pc = "done" =>
           Len(DeliveredBatches) =
               batchIndex + (IF batch # <<>> THEN 1 ELSE 0)

C31_Witness ==
    /\ pc = "done"
    /\ batch # <<>>
    /\ batchIndex = 1
    /\ Len(DeliveredBatches) = 2

(* ------------------------------ C32 ------------------------------------ *)
\* C32: whenever the next line can be taken, kept is BATCH_SIZE times
\* batchIndex plus the length of the batch in progress.
C32_KeptIsBatchesPlusRest ==
    pc = "reading" => kept = BATCH_SIZE * batchIndex + Len(batch)

C32_Witness ==
    /\ pc = "reading"
    /\ BATCH_SIZE = 2
    /\ batchIndex = 1
    /\ Len(batch) = 1
    /\ kept = 3

(* ------------------------------ C33 ------------------------------------ *)
\* C33: the magic-header check depends on the first four bytes of the
\* body only, however the transport cut it into chunks: once the first
\* chunk was examined the run has failed with the format error exactly
\* when the body does not begin with 28 B5 2F FD.
C33_MagicCheckIgnoresChunking ==
    (dump # <<>> /\ pc # "first_chunk") =>
        ((pc = "failed" /\ error = "magic") <=> FirstFour(dump) # SpecMagic)

(* ------------------------------ C34 ------------------------------------ *)
\* the requests after which upsertBatch slept
SleptAfter == {sleeps[k].request : k \in 1..Len(sleeps)}

\* the batch indexes upsertBatch returned for
Returned == {returns[r] : r \in 1..Len(returns)}

\* C34: a 2xx response whose body is not JSON or carries no success field
\* is a successful delivery (upsertBatch returns for that batch and the
\* next request, if any, carries the next batch); a 2xx response with
\* success=false fails the run at once: no sleep follows it and no further
\* request is sent.
C34_OnlyExplicitFalseFails2xx ==
    \A j \in 1..Len(responses) :
        (responses[j] # NetworkError
            /\ responses[j].status >= 200 /\ responses[j].status <= 299) =>
            /\ responses[j].body \in {"not_json", "no_success"} =>
                   /\ requests[j].batch_index \in Returned
                   /\ j \notin SleptAfter
                   /\ j < Len(requests) =>
                          requests[j + 1].batch_index =
                              requests[j].batch_index + 1
            /\ responses[j].body = "success_false" =>
                   /\ pc = "failed"
                   /\ error = "upsert"
                   /\ j = Len(requests)
                   /\ j \notin SleptAfter
                   /\ requests[j].batch_index \notin Returned

C34_Witness ==
    /\ Len(responses) = 2
    /\ responses[1].status = 200
    /\ responses[1].body = "not_json"
    /\ responses[2].status = 200
    /\ responses[2].body = "success_false"
    /\ requests[2].batch_index = 1
    /\ pc = "failed"

(* ------------------------------ C35 ------------------------------------ *)
\* the backoff sleeps taken for batch idx
SleepsFor(idx) == {j \in SleptAfter : requests[j].batch_index = idx}

\* a sleep was taken after the latest request and no request followed yet
RetryPending == Len(requests) > 0 /\ Len(requests) \in SleptAfter

\* C35: every backoff sleep lies between two requests for the same batch:
\* it follows a retryable failure of an attempt that is not the last
\* permitted one, and the next request repeats the same batch (until it is
\* sent the call is still sleeping or about to retry); so for every batch
\* the sleeps number its requests minus one once its delivery is over.
C35_SleepsOnlyBetweenRequests ==
    /\ Cardinality(SleptAfter) = Len(sleeps)
    /\ \A j \in SleptAfter :
           /\ j <= Len(responses)
           /\ responses[j] # NetworkError
           /\ SinkRetryable(responses[j])
           /\ AttemptOf(j) < UPSERT_RETRIES
           /\ j < Len(requests) =>
                  requests[j + 1].batch_index = requests[j].batch_index
    /\ RetryPending => pc \in {"upsert_sleep", "upsert_loop"}
    /\ \A j \in 1..Len(requests) :
           Cardinality(SleepsFor(requests[j].batch_index)) =
               Cardinality(RequestsFor(requests[j].batch_index)) - 1
                   + (IF RetryPending /\ requests[Len(requests)].batch_index
                                           = requests[j].batch_index
                      THEN 1 ELSE 0)

C35_Witness ==
    /\ Len(sleeps) = 2
    /\ Cardinality(RequestsFor(0)) = 3
    /\ 0 \in Returned
    /\ pc = "reading"

====
